---- MODULE Spec2Model ----
(***************************************************************************)
(* Model of the codex tool of the Codex MCP server (src/src/codex.rs):     *)
(* CodexServer::codex and CodexServer::execute_codex, i.e. the supervised  *)
(* run of one child process, the per-line aggregation of its JSON event    *)
(* stream, the bounded wait for its exit and the construction of the       *)
(* CodexResult.  Spec is the run of one call with the default request;     *)
(* ArgsSpec is the construction of the argument vector over the requests;  *)
(* LiveSpec is Spec with the fairness of the steps after the stream ended. *)
(*                                                                         *)
(* Representation of strings.  A Rust String is a sequence of fragments.   *)
(* Strings that the code inspects (event types, messages, reply texts,     *)
(* thread ids) are sequences of one-character strings, so that contains,   *)
(* starts_with, is_empty and push_str are computed as the standard library *)
(* computes them; a raw line is a sequence of whitespace characters and    *)
(* non-blank fragments, which is what trim looks at.  The error text is a  *)
(* sequence of annotations [pre, text]: pre is the literal the code pushes *)
(* and text the data pushed after it; concatenating the annotations gives  *)
(* the Rust string, and since every literal is non-empty the error text is *)
(* empty exactly when the sequence is.                                     *)
(***************************************************************************)
EXTENDS Integers, Sequences, FiniteSets, TLC

VARIABLES
    params,          \* CodexParams: the fields that reach the argument vector
    windows,         \* cfg!(windows) of the build
    argv,            \* the arguments given to the Command, in order
    pc,              \* position of execute_codex: start, read, wait, kill, reap, finalize, done,
                     \* or cancelled (the future of the call was dropped)
    codex_found,     \* whether which::which("codex") resolves
    cd_is_dir,       \* whether params.cd.is_dir()
    stream,          \* the lines the child writes to its stdout, by name (input of the run)
    pos,             \* number of lines taken from the reader so far
    return_all_messages, \* params.return_all_messages
    all_messages,    \* Option<Vec<Value>>
    agent_messages,  \* String
    thread_id,       \* Option<String>
    err_message,     \* String (sequence of annotations)
    success,         \* bool
    child,           \* the child process: none, running, exited, killed
    wait_outcome,    \* outcome of timeout(wait_timeout, child.wait()): pending, exited, error, timeout
    status,          \* Option<ExitStatus> of the child, as its exit code
    ret,             \* what execute_codex returned: none, Ok, Err
    result           \* Option<CodexResult> handed back by codex()

vars == <<params, windows, argv, pc, codex_found, cd_is_dir, stream, pos, return_all_messages, all_messages,
          agent_messages, thread_id, err_message, success, child, wait_outcome, status,
          ret, result>>

----------------------------------------------------------------------------
(* Bounds *)

MaxLen == 3
MaxPrompt == 2

----------------------------------------------------------------------------
(* Option<T> *)

None == [some |-> FALSE]
Some(x) == [some |-> TRUE, v |-> x]

(* serde_json::Value, reduced to the shapes the code distinguishes *)
JStr(s) == [t |-> "str", s |-> s]
JNum(n) == [t |-> "num", n |-> n]
JObj(o) == [t |-> "obj", o |-> o]

(* Value::get(key): Some only on an object that has the key *)
get(value, key) ==
    IF value.t = "obj" /\ key \in DOMAIN value.o THEN Some(value.o[key]) ELSE None

(* value.get(key).and_then(|t| t.as_str()) *)
get_str(value, key) ==
    LET g == get(value, key)
    IN  IF g.some /\ g.v.t = "str" THEN Some(g.v.s) ELSE None

(* str::contains(pat) *)
contains(s, pat) ==
    \E i \in 1..(Len(s) - Len(pat) + 1) : SubSeq(s, i, i + Len(pat) - 1) = pat

(* str::starts_with(pat) *)
starts_with(s, pat) ==
    Len(s) >= Len(pat) /\ SubSeq(s, 1, Len(pat)) = pat

IsWhitespace(c) == c \in {" ", "\t", "\r"}

RECURSIVE trim_start(_)
trim_start(s) ==
    IF s # <<>> /\ IsWhitespace(Head(s)) THEN trim_start(Tail(s)) ELSE s

RECURSIVE trim_end(_)
trim_end(s) ==
    IF s # <<>> /\ IsWhitespace(s[Len(s)]) THEN trim_end(SubSeq(s, 1, Len(s) - 1)) ELSE s

(* str::trim() *)
trim(s) == trim_end(trim_start(s))

----------------------------------------------------------------------------
(* String literals of the code *)

AGENT_MESSAGE == <<"a","g","e","n","t","_","m","e","s","s","a","g","e">>
FAIL == <<"f","a","i","l">>
ERROR == <<"e","r","r","o","r">>
RECONNECTING == <<"R","e","c","o","n","n","e","c","t","i","n","g",".",".",".">>
TURN_COMPLETED == <<"t","u","r","n",".","c","o","m","p","l","e","t","e","d">>

CODEX_ERROR == "\n\n[codex error] "
JSON_DECODE_ERROR == "\n\n[json decode error] "
CODEX_EXIT == "\n\n[codex exit] "
CODEX_WAIT_ERROR == "\n\n[codex wait error] "
CODEX_WAIT_TIMEOUT == "\n\n[codex wait timeout] "
(* the backquotes of the two literals below are written as apostrophes *)
MISSING_SESSION_ID == "Failed to get 'SESSION_ID' from the codex session.\n\n"
MISSING_AGENT_MESSAGES ==
    "Failed to get 'agent_messages' from the codex session.\n\nYou can try to set 'return_all_messages' to 'True' to get the full reasoning information. "

Annotation(pre, text) == [pre |-> pre, text |-> text]

----------------------------------------------------------------------------
(* The per-line step of the consumption loop, on the run state             *)
(* st = [all_messages, agent_messages, thread_id, err_message, success].   *)

(* Mutant of PushAllMessages: a reconnect notice is not retained *)
PushAllMessages_SkipReconnect(st, line_dict) ==
    IF /\ st.all_messages.some
       /\ ~(/\ get_str(line_dict, "type").some
            /\ contains(get_str(line_dict, "type").v, ERROR)
            /\ get_str(line_dict, "message").some
            /\ starts_with(get_str(line_dict, "message").v, RECONNECTING))
    THEN [st EXCEPT !.all_messages = Some(Append(st.all_messages.v, line_dict))]
    ELSE st

(* if let Some(all) = all_messages.as_mut() { all.push(line_dict.clone()) } *)
PushAllMessages(st, line_dict) ==
    IF st.all_messages.some
    THEN [st EXCEPT !.all_messages = Some(Append(st.all_messages.v, line_dict))]
    ELSE st

(* Mutant of ExtractAgentMessage: the fragment replaces the reply instead *)
(* of being appended to it                                                *)
ExtractAgentMessage_LastOnly(st, line_dict) ==
    LET item == get(line_dict, "item")
        item_type == IF item.some THEN get_str(item.v, "type") ELSE None
        text == IF item.some THEN get_str(item.v, "text") ELSE None
    IN  IF item_type.some /\ item_type.v = AGENT_MESSAGE /\ text.some
        THEN [st EXCEPT !.agent_messages = text.v]
        ELSE st

(* Extract agent messages *)
ExtractAgentMessage(st, line_dict) ==
    LET item == get(line_dict, "item")
        item_type == IF item.some THEN get_str(item.v, "type") ELSE None
        text == IF item.some THEN get_str(item.v, "text") ELSE None
    IN  IF item_type.some /\ item_type.v = AGENT_MESSAGE /\ text.some
        THEN [st EXCEPT !.agent_messages = st.agent_messages \o text.v]
        ELSE st

(* Extract thread_id *)
ExtractThreadId(st, line_dict) ==
    LET tid == get_str(line_dict, "thread_id")
    IN  IF tid.some THEN [st EXCEPT !.thread_id = Some(tid.v)] ELSE st

(* if msg_type.contains("fail") { ... } *)
FailBranch(st, line_dict, msg_type) ==
    IF contains(msg_type, FAIL)
    THEN LET error == get(line_dict, "error")
             error_msg == IF error.some THEN get_str(error.v, "message") ELSE None
         IN  [st EXCEPT !.success = FALSE,
                        !.err_message =
                            IF error_msg.some
                            THEN Append(st.err_message, Annotation(CODEX_ERROR, error_msg.v))
                            ELSE st.err_message]
    ELSE st

(* Mutant of ErrorBranch: a reconnect notice clears an earlier failure *)
ErrorBranch_ReconnectResets(st, line_dict, msg_type) ==
    LET error_msg == get_str(line_dict, "message")
    IN  IF contains(msg_type, ERROR) /\ error_msg.some
        THEN IF starts_with(error_msg.v, RECONNECTING)
             THEN [st |-> [st EXCEPT !.success = TRUE], skip |-> TRUE]
             ELSE [st |-> [st EXCEPT !.success = FALSE,
                                     !.err_message = Append(st.err_message,
                                         Annotation(CODEX_ERROR, error_msg.v))],
                   skip |-> FALSE]
        ELSE [st |-> st, skip |-> FALSE]

(* Mutant of ErrorBranch: the "Reconnecting..." notice is not recognised *)
(* and is logged like any other error                                   *)
ErrorBranch_NoReconnectSkip(st, line_dict, msg_type) ==
    LET error_msg == get_str(line_dict, "message")
    IN  IF contains(msg_type, ERROR) /\ error_msg.some
        THEN [st |-> [st EXCEPT !.success = FALSE,
                                !.err_message = Append(st.err_message,
                                    Annotation(CODEX_ERROR, error_msg.v))],
              skip |-> FALSE]
        ELSE [st |-> st, skip |-> FALSE]

(* if msg_type.contains("error") { ... }: skip is the `continue` taken on *)
(* the "Reconnecting..." noise                                             *)
ErrorBranch(st, line_dict, msg_type) ==
    LET error_msg == get_str(line_dict, "message")
    IN  IF contains(msg_type, ERROR) /\ error_msg.some
        THEN IF starts_with(error_msg.v, RECONNECTING)
             THEN [st |-> st, skip |-> TRUE]
             ELSE [st |-> [st EXCEPT !.success = FALSE,
                                     !.err_message = Append(st.err_message,
                                         Annotation(CODEX_ERROR, error_msg.v))],
                   skip |-> FALSE]
        ELSE [st |-> st, skip |-> FALSE]

(* Mutant of IsTurnCompleted: the loop never stops early *)
IsTurnCompleted_Never(msg_type) == FALSE

(* if msg_type == "turn.completed" { break; } *)
IsTurnCompleted(msg_type) == msg_type = TURN_COMPLETED

(* Check for failures: the block under `if let Some(msg_type) = ...` *)
CheckFailures(st, line_dict) ==
    LET msg_type == get_str(line_dict, "type")
    IN  IF msg_type.some
        THEN LET s1 == FailBranch(st, line_dict, msg_type.v)
                 e  == ErrorBranch(s1, line_dict, msg_type.v)
             IN  [st |-> e.st, brk |-> ~e.skip /\ IsTurnCompleted(msg_type.v)]
        ELSE [st |-> st, brk |-> FALSE]

(* The Ok(line_dict) arm *)
OkArm(st, line_dict) ==
    CheckFailures(ExtractThreadId(ExtractAgentMessage(PushAllMessages(st, line_dict),
                                                      line_dict), line_dict), line_dict)

(* The Err(e) arm: e.to_string() is the parser's message, kept as e *)
ErrArm(st, e, line) ==
    [st EXCEPT !.success = FALSE,
               !.err_message = Append(st.err_message,
                                      Annotation(JSON_DECODE_ERROR, e \o <<": ">> \o line))]

(* serde_json::from_str on the trimmed line: the decoding is an input of  *)
(* the model, each line carrying its text and what the parser makes of it *)
from_str(l) == l.parsed

(* Mutant of ProcessLine: a line that does not decode ends the loop *)
ProcessLine_AbortOnMalformed(st, l) ==
    LET line == trim(l.text)
    IN  IF line = <<>>
        THEN [st |-> st, brk |-> FALSE]
        ELSE LET r == from_str(l)
             IN  IF r.ok THEN OkArm(st, r.v)
                         ELSE [st |-> ErrArm(st, r.e, line), brk |-> TRUE]

(* The body of the while loop for one line l = [text, parsed] *)
ProcessLine(st, l) ==
    LET line == trim(l.text)
    IN  IF line = <<>>
        THEN [st |-> st, brk |-> FALSE]
        ELSE LET r == from_str(l)
             IN  IF r.ok THEN OkArm(st, r.v)
                         ELSE [st |-> ErrArm(st, r.e, line), brk |-> FALSE]

(* The locals of execute_codex before the loop *)
FreshState(retain) ==
    [all_messages |-> IF retain THEN Some(<<>>) ELSE None,
     agent_messages |-> <<>>,
     thread_id |-> None,
     err_message |-> <<>>,
     success |-> TRUE]

(* The while loop over the lines ls, from run state st: the state it ends *)
(* in and whether it ended by the break                                   *)
RECURSIVE RunLines(_, _)
RunLines(st, ls) ==
    IF ls = <<>> THEN [st |-> st, brk |-> FALSE]
    ELSE LET r == ProcessLine(st, Head(ls))
         IN  IF r.brk THEN r ELSE RunLines(r.st, Tail(ls))

----------------------------------------------------------------------------
(* The inputs: lines the child may write.  A line is [text, parsed]: text  *)
(* is the raw line (whitespace characters and non-blank fragments), parsed *)
(* is what serde_json::from_str makes of the trimmed text.                 *)

Ok(x) == [ok |-> TRUE, v |-> x]
Err(e) == [ok |-> FALSE, e |-> e]

TURN_FAILED == <<"t","u","r","n",".","f","a","i","l","e","d">>
ERROR_FAILED == <<"e","r","r","o","r",".","f","a","i","l","e","d">>
ITEM_COMPLETED == <<"i","t","e","m",".","c","o","m","p","l","e","t","e","d">>
REASONING == <<"r","e","a","s","o","n","i","n","g">>
Boom == <<"b","o","o","m">>
Bad == <<"b","a","d">>
Retry == RECONNECTING \o <<" ","1","/","5">>

AgentItem(text) == JObj([type |-> JStr(AGENT_MESSAGE), text |-> JStr(text)])

LineAgentHi == [text |-> <<"{\"item\":{\"type\":\"agent_message\",\"text\":\"Hi \"}}">>,
                parsed |-> Ok(JObj([item |-> AgentItem(<<"H","i"," ">>)]))]
LineAgentEmpty == [text |-> <<"{\"item\":{\"type\":\"agent_message\",\"text\":\"\"}}">>,
                   parsed |-> Ok(JObj([item |-> AgentItem(<<>>)]))]
LineOther ==
    [text |-> <<"{\"type\":\"item.completed\",\"item\":{\"type\":\"reasoning\",\"text\":\"hm\"},\"thread_id\":7}">>,
     parsed |-> Ok(JObj([type |-> JStr(ITEM_COMPLETED),
                         item |-> JObj([type |-> JStr(REASONING), text |-> JStr(<<"h","m">>)]),
                         thread_id |-> JNum(7)]))]
LineThreadA == [text |-> <<"{\"thread_id\":\"a1\"}">>,
                parsed |-> Ok(JObj([thread_id |-> JStr(<<"a","1">>)]))]
LineCompleted == [text |-> <<"{\"type\":\"turn.completed\"}">>,
                  parsed |-> Ok(JObj([type |-> JStr(TURN_COMPLETED)]))]
LineCompletedFull ==
    [text |-> <<"{\"type\":\"turn.completed\",\"thread_id\":\"b2\",\"item\":{\"type\":\"agent_message\",\"text\":\"yo\"}}">>,
     parsed |-> Ok(JObj([type |-> JStr(TURN_COMPLETED),
                         thread_id |-> JStr(<<"b","2">>),
                         item |-> AgentItem(<<"y","o">>)]))]
LineFailed == [text |-> <<"{\"type\":\"turn.failed\",\"error\":{\"message\":\"boom\"}}">>,
               parsed |-> Ok(JObj([type |-> JStr(TURN_FAILED),
                                   error |-> JObj([message |-> JStr(Boom)])]))]
LineFailedBare == [text |-> <<"{\"type\":\"turn.failed\"}">>,
                   parsed |-> Ok(JObj([type |-> JStr(TURN_FAILED)]))]
LineReconnect == [text |-> <<"{\"type\":\"error\",\"message\":\"Reconnecting... 1/5\"}">>,
                  parsed |-> Ok(JObj([type |-> JStr(ERROR), message |-> JStr(Retry)]))]
LineErrorBoom == [text |-> <<"{\"type\":\"error\",\"message\":\"boom\"}">>,
                  parsed |-> Ok(JObj([type |-> JStr(ERROR), message |-> JStr(Boom)]))]
LineErrorBare == [text |-> <<"{\"type\":\"error\"}">>,
                  parsed |-> Ok(JObj([type |-> JStr(ERROR)]))]
LineBoth ==
    [text |-> <<"{\"type\":\"error.failed\",\"error\":{\"message\":\"boom\"},\"message\":\"bad\"}">>,
     parsed |-> Ok(JObj([type |-> JStr(ERROR_FAILED),
                         error |-> JObj([message |-> JStr(Boom)]),
                         message |-> JStr(Bad)]))]
LineMalformed == [text |-> <<" ", "{", "x", "\r">>,
                  parsed |-> Err(<<"key must be a string at line 1 column 2">>)]
LineBlank == [text |-> <<" ", "\t">>, parsed |-> Err(<<"EOF while parsing a value">>)]

(* The state names the lines of the stream; Line gives the line of a name *)
LineNames == {"AgentHi", "AgentEmpty", "Other", "ThreadA", "Completed", "CompletedFull",
              "Failed", "FailedBare", "Reconnect", "ErrorBoom", "ErrorBare", "Both",
              "Malformed", "Blank"}

Line(name) ==
    CASE name = "AgentHi" -> LineAgentHi
      [] name = "AgentEmpty" -> LineAgentEmpty
      [] name = "Other" -> LineOther
      [] name = "ThreadA" -> LineThreadA
      [] name = "Completed" -> LineCompleted
      [] name = "CompletedFull" -> LineCompletedFull
      [] name = "Failed" -> LineFailed
      [] name = "FailedBare" -> LineFailedBare
      [] name = "Reconnect" -> LineReconnect
      [] name = "ErrorBoom" -> LineErrorBoom
      [] name = "ErrorBare" -> LineErrorBare
      [] name = "Both" -> LineBoth
      [] name = "Malformed" -> LineMalformed
      [] name = "Blank" -> LineBlank

Streams == UNION {[1..n -> LineNames] : n \in 0..MaxLen}

----------------------------------------------------------------------------
(* After the loop: the wait for the child's exit, validation, the result *)

ExitCodes == {0, 1}

(* ExitStatus::success() *)
status_success(code) == code = 0

(* format!("{status:?}") *)
DebugStatus(code) == IF code = 0 THEN <<"ExitStatus(unix_wait_status(0))">>
                                 ELSE <<"ExitStatus(unix_wait_status(256))">>

(* format!("{wait_timeout:?}") of Duration::from_secs(5) *)
DebugWaitTimeout == <<"5s">>

(* Mutant of ExitedArm: the exit status is not looked at *)
ExitedArm_IgnoreStatus(st, code) == st

(* Ok(Ok(status)) arm *)
ExitedArm(st, code) ==
    IF ~status_success(code)
    THEN [st EXCEPT !.success = FALSE,
                    !.err_message = Append(st.err_message,
                                           Annotation(CODEX_EXIT, DebugStatus(code)))]
    ELSE st

(* Ok(Err(e)) arm *)
WaitErrorArm(st, e) ==
    [st EXCEPT !.success = FALSE,
               !.err_message = Append(st.err_message, Annotation(CODEX_WAIT_ERROR, e))]

(* Err(_) arm, up to the kill *)
WaitTimeoutArm(st) ==
    [st EXCEPT !.success = FALSE,
               !.err_message = Append(st.err_message,
                                      Annotation(CODEX_WAIT_TIMEOUT, DebugWaitTimeout))]

(* Mutant of ValidateThreadId: the annotation is added but the verdict *)
(* is left alone                                                      *)
ValidateThreadId_NoFlip(st) ==
    IF ~st.thread_id.some
    THEN [st EXCEPT !.err_message = <<Annotation(MISSING_SESSION_ID, <<>>)>> \o st.err_message]
    ELSE st

(* Validate results: if thread_id.is_none() { ... } *)
ValidateThreadId(st) ==
    IF ~st.thread_id.some
    THEN [st EXCEPT !.success = FALSE,
                    !.err_message = <<Annotation(MISSING_SESSION_ID, <<>>)>> \o st.err_message]
    ELSE st

(* Validate results: if agent_messages.is_empty() { ... } *)
ValidateAgentMessages(st) ==
    IF st.agent_messages = <<>>
    THEN [st EXCEPT !.success = FALSE,
                    !.err_message = <<Annotation(MISSING_AGENT_MESSAGES, <<>>)>> \o st.err_message]
    ELSE st

(* Mutant of Validate: the two checks in the other order *)
Validate_AgentMessagesFirst(st) == ValidateThreadId(ValidateAgentMessages(st))

(* Validate results: the thread_id check, then the agent_messages check *)
Validate(st) == ValidateAgentMessages(ValidateThreadId(st))

(* Mutant of BuildResult: the failure arm always carries the reply, even *)
(* an empty one                                                         *)
BuildResult_AlwaysReply(st) ==
    [success |-> st.success,
     session_id |-> st.thread_id,
     agent_messages |-> Some(st.agent_messages),
     error |-> IF st.success THEN None ELSE Some(st.err_message),
     all_messages |-> st.all_messages]

(* Build result *)
BuildResult(st) ==
    IF st.success
    THEN [success |-> TRUE,
          session_id |-> st.thread_id,
          agent_messages |-> Some(st.agent_messages),
          error |-> None,
          all_messages |-> st.all_messages]
    ELSE [success |-> FALSE,
          session_id |-> st.thread_id,
          agent_messages |-> IF st.agent_messages = <<>> THEN None
                                                         ELSE Some(st.agent_messages),
          error |-> Some(st.err_message),
          all_messages |-> st.all_messages]

(* CodexError's Display texts (src/src/error.rs) *)
ExecutableNotFoundText ==
    <<Annotation("Codex executable not found. Please ensure 'codex' is installed and in PATH.", <<>>)>>
InvalidWorkingDirectoryText ==
    <<Annotation("Working directory does not exist or is not a directory: ", <<"\"/no/such/dir\"">>)>>
StdoutCaptureFailedText ==
    <<Annotation("Failed to capture codex stdout (pipe not available).", <<>>)>>
IoText == <<Annotation("I/O error while running codex: ", <<"os error">>)>>

(* Mutant of ErrResult: the fatal arm hands over what the run had         *)
(* accumulated                                                          *)
ErrResult_KeepAccumulated(e) ==
    [success |-> FALSE,
     session_id |-> thread_id,
     agent_messages |-> IF agent_messages = <<>> THEN None ELSE Some(agent_messages),
     error |-> Some(e),
     all_messages |-> all_messages]

(* codex(): the Err(e) arm of the match on execute_codex *)
ErrResult(e) ==
    [success |-> FALSE,
     session_id |-> None,
     agent_messages |-> None,
     error |-> Some(e),
     all_messages |-> None]

----------------------------------------------------------------------------
(* The argument vector.  An argument is a string, i.e. a sequence of      *)
(* fragments; a literal of the code is one fragment.                      *)

(* SandboxPolicy::as_str *)
as_str(sandbox) ==
    CASE sandbox = "ReadOnly" -> <<"read-only">>
      [] sandbox = "WorkspaceWrite" -> <<"workspace-write">>
      [] sandbox = "DangerFullAccess" -> <<"danger-full-access">>

(* String::is_empty *)
is_empty(s) == Len(s) = 0

(* [String]::join(sep) *)
RECURSIVE join(_, _)
join(v, sep) ==
    IF v = <<>> THEN <<>>
    ELSE IF Len(v) = 1 THEN v[1]
    ELSE v[1] \o sep \o join(Tail(v), sep)

(* The characters windows_escape looks for.  Backspace has no escape in a *)
(* string of this notation and is written as a named fragment.            *)
BACKSLASH == "\\"
QUOTE == "\""
NEWLINE == "\n"
CARRIAGE_RETURN == "\r"
TAB == "\t"
BACKSPACE == "<0x08>"
FORM_FEED == "\f"
APOSTROPHE == "'"

(* str::replace(from: char, to: &str) *)
RECURSIVE replace(_, _, _)
replace(s, from, to) ==
    IF s = <<>> THEN <<>>
    ELSE (IF Head(s) = from THEN to ELSE <<Head(s)>>) \o replace(Tail(s), from, to)

(* Mutant of windows_escape: a backslash is left as it is *)
windows_escape_KeepBackslash(prompt) ==
    LET s2 == replace(prompt, QUOTE, <<BACKSLASH, QUOTE>>)
        s3 == replace(s2, NEWLINE, <<BACKSLASH, "n">>)
        s4 == replace(s3, CARRIAGE_RETURN, <<BACKSLASH, "r">>)
        s5 == replace(s4, TAB, <<BACKSLASH, "t">>)
        s6 == replace(s5, BACKSPACE, <<BACKSLASH, "b">>)
        s7 == replace(s6, FORM_FEED, <<BACKSLASH, "f">>)
    IN  replace(s7, APOSTROPHE, <<BACKSLASH, APOSTROPHE>>)

(* windows_escape: eight replace passes, one after the other *)
windows_escape(prompt) ==
    LET s1 == replace(prompt, BACKSLASH, <<BACKSLASH, BACKSLASH>>)
        s2 == replace(s1, QUOTE, <<BACKSLASH, QUOTE>>)
        s3 == replace(s2, NEWLINE, <<BACKSLASH, "n">>)
        s4 == replace(s3, CARRIAGE_RETURN, <<BACKSLASH, "r">>)
        s5 == replace(s4, TAB, <<BACKSLASH, "t">>)
        s6 == replace(s5, BACKSPACE, <<BACKSLASH, "b">>)
        s7 == replace(s6, FORM_FEED, <<BACKSLASH, "f">>)
    IN  replace(s7, APOSTROPHE, <<BACKSLASH, APOSTROPHE>>)

(* if !params.image.is_empty() { --image <paths joined by ","> } *)
ImageArgs(p) ==
    IF ~(p.image = <<>>) THEN <<<<"--image">>, join(p.image, <<",">>)>> ELSE <<>>

(* if let Some(model) = params.model { if !model.is_empty() { --model } } *)
ModelArgs(p) ==
    IF p.model.some /\ ~is_empty(p.model.v) THEN <<<<"--model">>, p.model.v>> ELSE <<>>

(* if let Some(profile) = params.profile { if !profile.is_empty() { .. } } *)
ProfileArgs(p) ==
    IF p.profile.some /\ ~is_empty(p.profile.v) THEN <<<<"--profile">>, p.profile.v>>
    ELSE <<>>

(* Mutant of ResumeArgs: a supplied session id is passed on even if empty *)
ResumeArgs_EmptyToo(p) ==
    IF p.session_id.some THEN <<<<"resume">>, p.session_id.v>> ELSE <<>>

(* if let Some(session_id) = params.session_id { if !session_id.is_empty() *)
ResumeArgs(p) ==
    IF p.session_id.some /\ ~is_empty(p.session_id.v)
    THEN <<<<"resume">>, p.session_id.v>>
    ELSE <<>>

(* the prompt argument *)
PromptArg(p, win) == IF win THEN windows_escape(p.prompt) ELSE p.prompt

(* The arguments given to cmd, in the order of the arg calls *)
BuildArgs(p, win) ==
    <<<<"exec">>, <<"--sandbox">>, as_str(p.sandbox), <<"--cd">>, p.cd, <<"--json">>>>
    \o ImageArgs(p)
    \o ModelArgs(p)
    \o ProfileArgs(p)
    \o (IF p.yolo THEN <<<<"--yolo">>>> ELSE <<>>)
    \o (IF p.skip_git_repo_check THEN <<<<"--skip-git-repo-check">>>> ELSE <<>>)
    \o ResumeArgs(p)
    \o <<<<"--">>, PromptArg(p, win)>>

(* A request with the serde defaults of CodexParams *)
DefaultParams ==
    [prompt |-> <<"h", "i">>,
     cd |-> <<"/w">>,
     sandbox |-> "ReadOnly",
     session_id |-> None,
     skip_git_repo_check |-> TRUE,
     image |-> <<>>,
     model |-> None,
     yolo |-> FALSE,
     profile |-> None]

----------------------------------------------------------------------------
(* The state machine *)

RunState == [all_messages |-> all_messages, agent_messages |-> agent_messages,
             thread_id |-> thread_id, err_message |-> err_message, success |-> success]

SetRunState(st) ==
    /\ all_messages' = st.all_messages
    /\ agent_messages' = st.agent_messages
    /\ thread_id' = st.thread_id
    /\ err_message' = st.err_message
    /\ success' = st.success

Init ==
    /\ params = DefaultParams
    /\ windows = FALSE
    /\ argv = <<>>
    /\ pc = "start"
    /\ codex_found \in BOOLEAN
    /\ cd_is_dir \in BOOLEAN
    /\ return_all_messages \in BOOLEAN
    /\ stream = <<>>
    /\ pos = 0
    /\ all_messages = None
    /\ agent_messages = <<>>
    /\ thread_id = None
    /\ err_message = <<>>
    /\ success = TRUE
    /\ child = "none"
    /\ wait_outcome = "pending"
    /\ status = None
    /\ ret = "none"
    /\ result = None

(* cmd.kill_on_drop(true) *)
kill_on_drop == TRUE

(* Mutant of Drop: the Child is dropped without kill_on_drop *)
Drop_NoKill(c) == c

(* The Child handle goes out of scope: with kill_on_drop a child that was *)
(* not seen to exit is killed                                             *)
Drop(c) == IF kill_on_drop /\ c = "running" THEN "killed" ELSE c

(* execute_codex returns Err(e) and codex() turns it into a CodexResult; *)
(* the Child, if any, is dropped                                         *)
ReturnErr(e) ==
    /\ pc' = "done"
    /\ ret' = "Err"
    /\ result' = Some(ErrResult(e))
    /\ child' = Drop(child)

ExecutableNotFound ==
    /\ pc = "start"
    /\ ~codex_found
    /\ ReturnErr(ExecutableNotFoundText)
    /\ UNCHANGED <<params, windows, argv, codex_found, cd_is_dir, stream, pos, return_all_messages, all_messages,
                   agent_messages, thread_id, err_message, success, wait_outcome, status>>

(* Mutant of InvalidWorkingDirectory: the directory is checked without   *)
(* the executable having been resolved first                            *)
InvalidWorkingDirectory_Unordered ==
    /\ pc = "start"
    /\ ~cd_is_dir
    /\ ReturnErr(InvalidWorkingDirectoryText)
    /\ UNCHANGED <<params, windows, argv, codex_found, cd_is_dir, stream, pos, return_all_messages, all_messages,
                   agent_messages, thread_id, err_message, success, wait_outcome, status>>

(* if !params.cd.is_dir(), reached once which::which has resolved *)
InvalidWorkingDirectory ==
    /\ pc = "start"
    /\ codex_found
    /\ ~cd_is_dir
    /\ ReturnErr(InvalidWorkingDirectoryText)
    /\ UNCHANGED <<params, windows, argv, codex_found, cd_is_dir, stream, pos, return_all_messages, all_messages,
                   agent_messages, thread_id, err_message, success, wait_outcome, status>>

(* cmd.spawn()? fails *)
SpawnFailed ==
    /\ pc = "start"
    /\ codex_found
    /\ cd_is_dir
    /\ ReturnErr(IoText)
    /\ UNCHANGED <<params, windows, argv, codex_found, cd_is_dir, stream, pos, return_all_messages, all_messages,
                   agent_messages, thread_id, err_message, success, wait_outcome, status>>

(* child.stdout.take() is None: the spawned child is dropped *)
StdoutCaptureFailed ==
    /\ pc = "start"
    /\ codex_found
    /\ cd_is_dir
    /\ pc' = "done"
    /\ ret' = "Err"
    /\ result' = Some(ErrResult(StdoutCaptureFailedText))
    /\ child' = Drop("running")
    /\ UNCHANGED <<params, windows, argv, codex_found, cd_is_dir, stream, pos, return_all_messages, all_messages,
                   agent_messages, thread_id, err_message, success, wait_outcome, status>>

(* The child is spawned; s is what it will write to its stdout *)
Spawn ==
    /\ pc = "start"
    /\ codex_found
    /\ cd_is_dir
    /\ argv' = BuildArgs(params, windows)
    /\ \E s \in Streams : stream' = s
    /\ child' = "running"
    /\ SetRunState(FreshState(return_all_messages))
    /\ pc' = "read"
    /\ UNCHANGED <<params, windows, codex_found, cd_is_dir, pos, return_all_messages, wait_outcome, status,
                   ret, result>>

(* reader.next_line() gives Some(line): one turn of the while loop *)
ReadLine ==
    /\ pc = "read"
    /\ pos < Len(stream)
    /\ LET r == ProcessLine(RunState, Line(stream[pos + 1]))
       IN  /\ SetRunState(r.st)
           /\ pc' = IF r.brk THEN "wait" ELSE "read"
    /\ pos' = pos + 1
    /\ UNCHANGED <<params, windows, argv, codex_found, cd_is_dir, stream, return_all_messages, child, wait_outcome,
                   status, ret, result>>

(* reader.next_line() gives None: end of stream *)
ReadEof ==
    /\ pc = "read"
    /\ pos = Len(stream)
    /\ pc' = "wait"
    /\ UNCHANGED <<params, windows, argv, codex_found, cd_is_dir, stream, pos, return_all_messages, all_messages,
                   agent_messages, thread_id, err_message, success, child, wait_outcome,
                   status, ret, result>>

(* reader.next_line() gives Err: `?` returns it *)
ReadError ==
    /\ pc = "read"
    /\ ReturnErr(IoText)
    /\ UNCHANGED <<params, windows, argv, codex_found, cd_is_dir, stream, pos, return_all_messages, all_messages,
                   agent_messages, thread_id, err_message, success, wait_outcome, status>>

(* timeout(wait_timeout, child.wait()) gives Ok(Ok(status)) *)
WaitExited ==
    /\ pc = "wait"
    /\ \E code \in ExitCodes :
          /\ SetRunState(ExitedArm(RunState, code))
          /\ status' = Some(code)
    /\ wait_outcome' = "exited"
    /\ child' = "exited"
    /\ pc' = "finalize"
    /\ UNCHANGED <<params, windows, argv, codex_found, cd_is_dir, stream, pos, return_all_messages, ret, result>>

(* timeout(wait_timeout, child.wait()) gives Ok(Err(e)) *)
WaitError ==
    /\ pc = "wait"
    /\ SetRunState(WaitErrorArm(RunState, <<"os error">>))
    /\ wait_outcome' = "error"
    /\ pc' = "finalize"
    /\ UNCHANGED <<params, windows, argv, codex_found, cd_is_dir, stream, pos, return_all_messages, child, status,
                   ret, result>>

(* timeout(wait_timeout, child.wait()) gives Err(_): the ceiling elapsed *)
WaitTimeout ==
    /\ pc = "wait"
    /\ SetRunState(WaitTimeoutArm(RunState))
    /\ wait_outcome' = "timeout"
    /\ pc' = "kill"
    /\ UNCHANGED <<params, windows, argv, codex_found, cd_is_dir, stream, pos, return_all_messages, child, status,
                   ret, result>>

(* Mutant of KillChild: the timeout arm goes on without killing the child *)
KillChild_NoKill ==
    /\ pc = "kill"
    /\ pc' = "reap"
    /\ UNCHANGED <<params, windows, argv, codex_found, cd_is_dir, stream, pos, return_all_messages, all_messages,
                   agent_messages, thread_id, err_message, success, child, wait_outcome,
                   status, ret, result>>

(* child.kill(): the kill is issued *)
KillChild ==
    /\ pc = "kill"
    /\ child' = "killed"
    /\ pc' = "reap"
    /\ UNCHANGED <<params, windows, argv, codex_found, cd_is_dir, stream, pos, return_all_messages, all_messages,
                   agent_messages, thread_id, err_message, success, wait_outcome, status,
                   ret, result>>

(* The exit of the killed child is collected: the wait inside             *)
(* child.kill().await and `let _ = child.wait().await` return.  Neither   *)
(* await is wrapped in a timeout; the results are discarded.              *)
WaitAfterKill ==
    /\ pc = "reap"
    /\ pc' = "finalize"
    /\ UNCHANGED <<params, windows, argv, codex_found, cd_is_dir, stream, pos, return_all_messages, all_messages,
                   agent_messages, thread_id, err_message, success, child, wait_outcome,
                   status, ret, result>>

(* Validate results, build the result, return Ok(result); codex() passes *)
(* it on.  The Child is dropped on return.                               *)
Finalize ==
    /\ pc = "finalize"
    /\ LET st == Validate(RunState)
       IN  /\ SetRunState(st)
           /\ result' = Some(BuildResult(st))
    /\ ret' = "Ok"
    /\ child' = Drop(child)
    /\ pc' = "done"
    /\ UNCHANGED <<params, windows, argv, codex_found, cd_is_dir, stream, pos, return_all_messages, wait_outcome,
                   status>>

(* The caller abandons the call while execute_codex is suspended at an    *)
(* await (next_line, the timed wait, kill, the wait after kill): the      *)
(* future is dropped, and the Child with it                               *)
Cancel ==
    /\ pc \in {"read", "wait", "kill", "reap"}
    /\ pc' = "cancelled"
    /\ child' = Drop(child)
    /\ UNCHANGED <<params, windows, argv, codex_found, cd_is_dir, stream, pos, return_all_messages, all_messages,
                   agent_messages, thread_id, err_message, success, wait_outcome, status,
                   ret, result>>

Next ==
    \/ ExecutableNotFound
    \/ InvalidWorkingDirectory
    \/ SpawnFailed
    \/ StdoutCaptureFailed
    \/ Spawn
    \/ ReadLine
    \/ ReadEof
    \/ ReadError
    \/ WaitExited
    \/ WaitError
    \/ WaitTimeout
    \/ KillChild
    \/ WaitAfterKill
    \/ Finalize
    \/ Cancel

Spec == Init /\ [][Next]_vars

----------------------------------------------------------------------------
(* Building the command, on its own, over the requests *)

Sandboxes == {"ReadOnly", "WorkspaceWrite", "DangerFullAccess"}
Overrides == {None, Some(<<>>), Some(<<" ">>), Some(<<"o", "3">>)}
SessionIds == {None, Some(<<>>), Some(<<"s", "1">>)}
Images == {<<>>, <<<<"a.png">>>>, <<<<"a.png">>, <<"b.png">>>>}
FlagLikePrompts == {<<>>, <<"h", "i">>, <<"--yolo">>, <<"--">>, <<"resume">>}
Chars == {"a", BACKSLASH, QUOTE, NEWLINE, CARRIAGE_RETURN, TAB, BACKSPACE, FORM_FEED,
          APOSTROPHE}
Prompts == UNION {[1..n -> Chars] : n \in 0..MaxPrompt}

Requests ==
    [prompt : FlagLikePrompts,
     cd : {<<"/w">>},
     sandbox : Sandboxes,
     session_id : SessionIds,
     skip_git_repo_check : BOOLEAN,
     image : Images,
     model : Overrides,
     yolo : BOOLEAN,
     profile : Overrides]

(* Every request with a short prompt on either build, and the default     *)
(* request with every prompt over Chars on a Windows build                *)
ArgsInit ==
    /\ \/ params \in Requests /\ windows \in BOOLEAN
       \/ params \in {[DefaultParams EXCEPT !.prompt = q] : q \in Prompts} /\ windows = TRUE
    /\ argv = <<>>
    /\ pc = "args"
    /\ codex_found = TRUE
    /\ cd_is_dir = TRUE
    /\ return_all_messages = FALSE
    /\ stream = <<>>
    /\ pos = 0
    /\ all_messages = None
    /\ agent_messages = <<>>
    /\ thread_id = None
    /\ err_message = <<>>
    /\ success = TRUE
    /\ child = "none"
    /\ wait_outcome = "pending"
    /\ status = None
    /\ ret = "none"
    /\ result = None

(* The argument calls on cmd, from Command::new to cmd.arg("--").arg(..) *)
BuildCommand ==
    /\ pc = "args"
    /\ argv' = BuildArgs(params, windows)
    /\ pc' = "built"
    /\ UNCHANGED <<params, windows, codex_found, cd_is_dir, stream, pos, return_all_messages,
                   all_messages, agent_messages, thread_id, err_message, success, child,
                   wait_outcome, status, ret, result>>

ArgsNext == BuildCommand

ArgsSpec == ArgsInit /\ [][ArgsNext]_vars

----------------------------------------------------------------------------
(* The steps after the stream ended that complete without the child's     *)
(* help: the timed wait returns one of its three outcomes once the         *)
(* 5-second timer has fired at the latest, issuing the kill and building   *)
(* the result are straight-line code.  The waits after the kill return     *)
(* only when the child's exit is reported, and no timer is armed there.    *)
LiveSpec ==
    /\ Spec
    /\ WF_vars(WaitExited \/ WaitError \/ WaitTimeout)
    /\ WF_vars(KillChild)
    /\ WF_vars(Finalize)

----------------------------------------------------------------------------
(* Vocabulary of the properties, read off the stream the child wrote *)

(* the line is handed to the parser and decodes / does not decode *)
IsEvent(l) == trim(l.text) # <<>> /\ l.parsed.ok
IsMalformed(l) == trim(l.text) # <<>> /\ ~l.parsed.ok

TypeOf(l) == IF IsEvent(l) THEN get_str(l.parsed.v, "type") ELSE None
MessageOf(l) == IF IsEvent(l) THEN get_str(l.parsed.v, "message") ELSE None
ThreadIdOf(l) == IF IsEvent(l) THEN get_str(l.parsed.v, "thread_id") ELSE None
AgentTextOf(l) ==
    IF /\ IsEvent(l)
       /\ get(l.parsed.v, "item").some
       /\ get_str(get(l.parsed.v, "item").v, "type") = Some(AGENT_MESSAGE)
    THEN get_str(get(l.parsed.v, "item").v, "text")
    ELSE None

TypeContains(l, pat) == TypeOf(l).some /\ contains(TypeOf(l).v, pat)
IsCompletion(l) == TypeOf(l) = Some(TURN_COMPLETED)

(* an error event that is a reconnect notice: type contains "error" and   *)
(* not "fail", top-level message starting with "Reconnecting..."          *)
IsReconnectNotice(l) ==
    /\ TypeContains(l, ERROR) /\ ~TypeContains(l, FAIL)
    /\ MessageOf(l).some /\ starts_with(MessageOf(l).v, RECONNECTING)

(* an error event that is no reconnect notice: type contains "error" and  *)
(* not "fail", no top-level message string starting with "Reconnecting..." *)
IsFlaggedError(l) ==
    /\ TypeContains(l, ERROR) /\ ~TypeContains(l, FAIL)
    /\ ~(MessageOf(l).some /\ starts_with(MessageOf(l).v, RECONNECTING))

(* The lines of each kind, and what each line carries, by name *)
Malformeds == {n \in LineNames : IsMalformed(Line(n))}
Completions == {n \in LineNames : IsCompletion(Line(n))}
FailOrErrorEvents ==
    {n \in LineNames : TypeContains(Line(n), FAIL) \/ TypeContains(Line(n), ERROR)}
ReconnectNotices == {n \in LineNames : IsReconnectNotice(Line(n))}
FlaggedErrors == {n \in LineNames : IsFlaggedError(Line(n))}
ThreadIds == [n \in LineNames |-> ThreadIdOf(Line(n))]
AgentTexts == [n \in LineNames |-> AgentTextOf(Line(n))]

(* index of the first turn.completed event from index i on, or the length *)
(* of the stream                                                          *)
RECURSIVE FirstCompletion(_, _)
FirstCompletion(s, i) ==
    IF i > Len(s) THEN Len(s)
    ELSE IF s[i] \in Completions THEN i ELSE FirstCompletion(s, i + 1)

StopIndex(s) == FirstCompletion(s, 1)

(* the lines up to and including the first turn.completed, or up to EOF *)
Consumed(s) == SubSeq(s, 1, StopIndex(s))

(* every agent_message text of the lines, concatenated in emission order *)
RECURSIVE ConcatTexts(_)
ConcatTexts(s) ==
    IF s = <<>> THEN <<>>
    ELSE (IF AgentTexts[Head(s)].some THEN AgentTexts[Head(s)].v ELSE <<>>)
         \o ConcatTexts(Tail(s))

(* the thread_id of the last line that carries one *)
RECURSIVE LastThreadId(_)
LastThreadId(s) ==
    IF s = <<>> THEN None
    ELSE IF ThreadIds[s[Len(s)]].some THEN ThreadIds[s[Len(s)]]
         ELSE LastThreadId(SubSeq(s, 1, Len(s) - 1))

(* no malformed line, no fail/error event, and a thread_id and a non-empty *)
(* agent_message text among the lines up to and including the first        *)
(* turn.completed                                                          *)
CleanStream(s) ==
    /\ \A i \in 1..Len(s) : s[i] \notin Malformeds /\ s[i] \notin FailOrErrorEvents
    /\ \E i \in 1..StopIndex(s) : ThreadIds[s[i]].some
    /\ \E i \in 1..StopIndex(s) : AgentTexts[s[i]].some /\ AgentTexts[s[i]].v # <<>>

HasAnnotation(text, pre) == \E i \in 1..Len(text) : text[i].pre = pre

(* the lines taken from the reader so far *)
Taken == SubSeq(stream, 1, pos)

(* execute_codex ran to its end and built the result itself *)
Finalized == ret = "Ok"
ExitedWith(code) == status = Some(code)

----------------------------------------------------------------------------
(* C1: a stream with no malformed line and no fail/error event, with a     *)
(* thread_id and a non-empty agent_message text before the stop, whose     *)
(* child exits with status zero, gives success=true, no error, session_id  *)
(* the last thread_id observed and agent_messages the concatenation, in    *)
(* emission order, of every agent_message text observed.                   *)
C1_CleanRunSucceeds ==
    (Finalized /\ ExitedWith(0) /\ CleanStream(stream)) =>
        /\ result.v.success
        /\ ~result.v.error.some
        /\ result.v.session_id = LastThreadId(Consumed(stream))
        /\ result.v.agent_messages = Some(ConcatTexts(Consumed(stream)))

C1_Witness ==
    /\ Finalized /\ ExitedWith(0)
    /\ stream = <<"AgentHi", "ThreadA", "CompletedFull">>
    /\ CleanStream(stream)
    /\ result.v.success
    /\ result.v.session_id = Some(<<"b","2">>)
    /\ result.v.agent_messages = Some(<<"H","i"," ","y","o">>)

(* C2 as stated: in every Run Result the codex operation returns, success  *)
(* implies no error, a session_id and a non-empty agent_messages; failure  *)
(* implies an error; and on failure session_id / agent_messages are        *)
(* included exactly when a thread_id was observed / the reply is non-empty *)
ResultShape ==
    /\ result.v.success =>
          /\ ~result.v.error.some
          /\ result.v.session_id.some
          /\ result.v.agent_messages.some /\ result.v.agent_messages.v # <<>>
    /\ ~result.v.success =>
          /\ result.v.error.some
          /\ result.v.session_id.some <=> thread_id.some
          /\ result.v.agent_messages.some <=> agent_messages # <<>>

C2_Original == result.some => ResultShape

(* C2 as amended: the shape holds of every Run Result built by the         *)
(* finalization of execute_codex; a Run Result made from a fatal failure   *)
(* (execute_codex returned Err) has success=false, an error, and neither   *)
(* session_id nor agent_messages, whatever had been accumulated.           *)
C2_FinalizedResultShape ==
    /\ Finalized => ResultShape
    /\ ret = "Err" =>
          /\ ~result.v.success
          /\ result.v.error.some
          /\ ~result.v.session_id.some
          /\ ~result.v.agent_messages.some

(* a failed run that still carries its partial reply, and no session_id *)
C2_Witness ==
    /\ Finalized
    /\ ~result.v.success
    /\ result.v.agent_messages = Some(<<"H","i"," ">>)
    /\ ~result.v.session_id.some
    /\ result.v.error.some

(* C3: the success verdict never goes back from false to true within a    *)
(* run, and a verdict once false makes the returned success false.        *)
C3_SuccessMonotonic ==
    [][ /\ ~success => ~success'
        /\ (~success /\ result'.some) => ~result'.v.success ]_vars

(* a run whose first line is malformed and whose every later step is      *)
(* clean still returns success=false                                      *)
C3_Witness ==
    /\ Finalized /\ ExitedWith(0)
    /\ stream = <<"Malformed", "ThreadA", "AgentHi">>
    /\ ~success
    /\ ~result.v.success

(* this step is a turn of the loop, on the line NextLine *)
TakesLine == pc = "read" /\ pos < Len(stream) /\ pos' = pos + 1
NextLine == stream[pos + 1]

(* one or more reconnect notices, then a clean stream *)
ReconnectsThenClean(s) ==
    \E k \in 1..Len(s) :
        /\ \A i \in 1..k : s[i] \in ReconnectNotices
        /\ CleanStream(SubSeq(s, k + 1, Len(s)))

(* C4: the step on a reconnect notice leaves success and the error log    *)
(* unchanged, and reconnect notices followed by a clean stream and a zero *)
(* exit give success=true with no error.                                  *)
C4_ReconnectIgnored ==
    /\ [][(TakesLine /\ NextLine \in ReconnectNotices) =>
              (success' = success /\ err_message' = err_message)]_vars
    /\ []((Finalized /\ ExitedWith(0) /\ ReconnectsThenClean(stream)) =>
              (result.v.success /\ ~result.v.error.some))

C4_Witness ==
    /\ Finalized /\ ExitedWith(0)
    /\ stream = <<"Reconnect", "Reconnect", "CompletedFull">>
    /\ ReconnectsThenClean(stream)
    /\ result.v.success
    /\ ~result.v.error.some

(* C5: once such an error event has been consumed, with or without a      *)
(* top-level message string, success is false.                            *)
C5_ErrorEventFlips ==
    (\E i \in 1..pos : stream[i] \in FlaggedErrors) => ~success

(* C6: a Run Result with success=false has a non-empty error text.        *)
C6_FailureIsLogged ==
    (result.some /\ ~result.v.success) =>
        (result.v.error.some /\ result.v.error.v # <<>>)

(* C7: when the stream ended without a top-level thread_id string, the    *)
(* Run Result has success=false, no session_id, an error text with the    *)
(* missing-session-identity annotation, and agent_messages exactly when a *)
(* non-empty reply was accumulated.                                       *)
C7_MissingSessionId ==
    (Finalized /\ \A i \in 1..pos : ~ThreadIds[stream[i]].some) =>
        /\ ~result.v.success
        /\ ~result.v.session_id.some
        /\ result.v.error.some /\ HasAnnotation(result.v.error.v, MISSING_SESSION_ID)
        /\ result.v.agent_messages =
              IF ConcatTexts(Taken) # <<>>
              THEN Some(ConcatTexts(Taken)) ELSE None

(* nothing else went wrong: a reply, a zero exit, no thread_id *)
C7_Witness ==
    /\ Finalized /\ ExitedWith(0)
    /\ stream = <<"AgentHi", "Completed">>
    /\ ~result.v.success
    /\ ~result.v.session_id.some
    /\ result.v.error.v = <<Annotation(MISSING_SESSION_ID, <<>>)>>
    /\ result.v.agent_messages = Some(<<"H","i"," ">>)

(* C8: a non-zero exit after a clean stream gives success=false, an error *)
(* text with the exit annotation, and session_id and agent_messages as    *)
(* accumulated from the stream.                                           *)
C8_NonZeroExit ==
    (Finalized /\ status.some /\ ~status_success(status.v) /\ CleanStream(stream)) =>
        /\ ~result.v.success
        /\ result.v.error.some /\ HasAnnotation(result.v.error.v, CODEX_EXIT)
        /\ result.v.session_id = LastThreadId(Consumed(stream))
        /\ result.v.agent_messages = Some(ConcatTexts(Consumed(stream)))

C8_Witness ==
    /\ Finalized /\ ExitedWith(1)
    /\ stream = <<"ThreadA", "AgentHi", "Completed">>
    /\ ~result.v.success
    /\ result.v.error.v = <<Annotation(CODEX_EXIT, DebugStatus(1))>>
    /\ result.v.session_id = Some(<<"a","1">>)
    /\ result.v.agent_messages = Some(<<"H","i"," ">>)

NotMalformed(n) == n \notin Malformeds
LinesOf(s) == [i \in 1..Len(s) |-> Line(s[i])]
NotDecodeAnnotation(a) == a.pre # JSON_DECODE_ERROR

(* the loop over the lines taken so far, with the malformed ones left out *)
WithoutMalformed == RunLines(FreshState(return_all_messages),
                             LinesOf(SelectSeq(Taken, NotMalformed)))

(* C9: the step on a malformed line sets success to false, appends one    *)
(* decode-failure annotation, leaves the reply, the session identity and  *)
(* the retained events alone and stays in the loop; and the loop's state  *)
(* is, but for success and the decode annotations, what it would be had   *)
(* the malformed lines not been in the stream.                            *)
C9_MalformedLineSkipped ==
    /\ [][(TakesLine /\ NextLine \in Malformeds) =>
            /\ success' = FALSE
            /\ Len(err_message') = Len(err_message) + 1
            /\ SubSeq(err_message', 1, Len(err_message)) = err_message
            /\ err_message'[Len(err_message')].pre = JSON_DECODE_ERROR
            /\ UNCHANGED <<agent_messages, thread_id, all_messages>>
            /\ pc' = "read"]_vars
    /\ [](pc \in {"read", "wait"} =>
            LET without == WithoutMalformed
            IN  /\ agent_messages = without.st.agent_messages
                /\ thread_id = without.st.thread_id
                /\ all_messages = without.st.all_messages
                /\ SelectSeq(err_message, NotDecodeAnnotation) = without.st.err_message
                /\ success = (/\ without.st.success
                              /\ \A i \in 1..pos : stream[i] \notin Malformeds)
                /\ without.brk = (pc = "wait" /\ pos > 0 /\ stream[pos] \in Completions))

C9_Witness ==
    /\ Finalized /\ ExitedWith(0)
    /\ stream = <<"ThreadA", "Malformed", "AgentHi">>
    /\ pos = 3
    /\ ~result.v.success
    /\ result.v.session_id = Some(<<"a","1">>)
    /\ result.v.agent_messages = Some(<<"H","i"," ">>)
    /\ Len(result.v.error.v) = 1
    /\ result.v.error.v[1].pre = JSON_DECODE_ERROR

(* C10: no line after the first turn.completed is taken, and what the     *)
(* loop leaves behind is what it leaves on the stream cut after the first *)
(* turn.completed.                                                        *)
C10_NothingAfterTurnCompleted ==
    LET stop == StopIndex(stream)
    IN  /\ pos <= stop
        /\ pc = "wait" =>
              /\ pos = stop
              /\ RunState = RunLines(FreshState(return_all_messages),
                                     LinesOf(Consumed(stream))).st
        /\ Finalized =>
              /\ pos = stop
              /\ result.v.session_id = LastThreadId(Consumed(stream))
              /\ result.v.agent_messages.some =>
                    result.v.agent_messages.v = ConcatTexts(Consumed(stream))

C10_Witness ==
    /\ Finalized /\ ExitedWith(0)
    /\ stream = <<"Completed", "ThreadA", "ErrorBoom">>
    /\ pos = 1
    /\ ~result.v.session_id.some
    /\ ~result.v.agent_messages.some
    /\ result.v.error.v = <<Annotation(MISSING_AGENT_MESSAGES, <<>>),
                            Annotation(MISSING_SESSION_ID, <<>>)>>

----------------------------------------------------------------------------
(* C11: when the wait ceiling elapses before the child has exited, success *)
(* is false and the error text carries the wait-timeout annotation; the    *)
(* child is killed before execute_codex goes on to build its result, and   *)
(* the Run Result returned has success=false and an error text containing  *)
(* the wait-timeout annotation.                                            *)
C11_TimeoutKills ==
    wait_outcome = "timeout" =>
        /\ ~success
        /\ HasAnnotation(err_message, CODEX_WAIT_TIMEOUT)
        /\ (pc \in {"finalize", "done"} => child = "killed")
        /\ (result.some =>
              /\ ~result.v.success
              /\ result.v.error.some
              /\ HasAnnotation(result.v.error.v, CODEX_WAIT_TIMEOUT))

(* a run whose wait timed out has returned its result *)
C11_Witness ==
    /\ wait_outcome = "timeout"
    /\ pc = "done"
    /\ result.some
    /\ child = "killed"

----------------------------------------------------------------------------
(* C12: once the line stream has ended (EOF or early stop), the call       *)
(* always eventually returns a Run Result, unless its caller abandons it:  *)
(* no wait on the child goes on without a bound, the waits after the       *)
(* forced kill included.                                                   *)
C12_AlwaysReturns == (pc = "wait") ~> (pc = "done" \/ pc = "cancelled")

----------------------------------------------------------------------------
(* C13: no child outlives its supervising call.  When execute_codex has    *)
(* returned (Ok or Err) or its future has been dropped at an await, a      *)
(* child that was spawned has exited or has been killed.                   *)
C13_NoOrphanChild ==
    pc \in {"done", "cancelled"} => child \in {"none", "exited", "killed"}

(* the call was abandoned while it was reading lines or waiting for the   *)
(* exit, and the child was killed                                         *)
C13_Witness ==
    /\ pc = "cancelled"
    /\ child = "killed"
    /\ wait_outcome = "pending"
    /\ pos > 0

----------------------------------------------------------------------------
(* C14: the codex operation never returns a hard failure.  Whenever the    *)
(* call has returned it has handed back a Run Result; each fatal failure   *)
(* (executable not found, invalid working directory, spawn failure,        *)
(* stdout-capture failure, stream read I/O error) gives a Run Result with  *)
(* success=false, error equal to that failure's message, and session_id,   *)
(* agent_messages and all_messages absent, whatever thread_id, reply       *)
(* fragments or retained events had been accumulated before the failure.   *)
FatalResult(text) ==
    result = Some([success |-> FALSE,
                   session_id |-> None,
                   agent_messages |-> None,
                   error |-> Some(text),
                   all_messages |-> None])

C14_NeverHardFails ==
    /\ [][/\ (ExecutableNotFound => FatalResult(ExecutableNotFoundText)')
          /\ (InvalidWorkingDirectory => FatalResult(InvalidWorkingDirectoryText)')
          /\ (SpawnFailed => FatalResult(IoText)')
          /\ (StdoutCaptureFailed => FatalResult(StdoutCaptureFailedText)')
          /\ (ReadError => FatalResult(IoText)')]_vars
    /\ [](pc = "done" => result.some)
    /\ [](ret = "Err" =>
            /\ ~result.v.success
            /\ result.v.error.some /\ result.v.error.v # <<>>
            /\ result.v.session_id = None
            /\ result.v.agent_messages = None
            /\ result.v.all_messages = None)

(* a read error after a thread_id, a reply fragment and retained events   *)
(* had been accumulated                                                   *)
C14_Witness ==
    /\ ret = "Err"
    /\ thread_id.some
    /\ agent_messages # <<>>
    /\ all_messages.some /\ Len(all_messages.v) > 0
    /\ FatalResult(IoText)

----------------------------------------------------------------------------
(* C15: when the executable cannot be resolved the run fails with          *)
(* ExecutableNotFound, also when the working directory is invalid too;     *)
(* when the executable resolves and the working directory is not an        *)
(* existing directory the run fails with InvalidWorkingDirectory; in both  *)
(* cases no child process is ever spawned.                                 *)
C15_Preconditions ==
    /\ (~codex_found \/ ~cd_is_dir) =>
            /\ child = "none"
            /\ pc \in {"start", "done"}
            /\ stream = <<>>
    /\ (pc = "done" /\ ~codex_found) =>
            ret = "Err" /\ FatalResult(ExecutableNotFoundText)
    /\ (pc = "done" /\ codex_found /\ ~cd_is_dir) =>
            ret = "Err" /\ FatalResult(InvalidWorkingDirectoryText)

(* both preconditions fail and the call has returned *)
C15_Witness ==
    /\ ~codex_found
    /\ ~cd_is_dir
    /\ pc = "done"
    /\ FatalResult(ExecutableNotFoundText)

----------------------------------------------------------------------------
(* C16: the argument vector built for a request.  exec, --sandbox and the  *)
(* policy string, --cd and the directory, --json; --image and the paths    *)
(* joined by commas iff there are attachments; the --model and --profile   *)
(* pairs; --yolo iff requested; --skip-git-repo-check iff requested;       *)
(* resume and the id iff a non-empty session identity was supplied; then   *)
(* "--" and the final argument.                                            *)
PolicyString(sandbox) ==
    IF sandbox = "ReadOnly" THEN <<"read-only">>
    ELSE IF sandbox = "WorkspaceWrite" THEN <<"workspace-write">>
    ELSE <<"danger-full-access">>

(* the vector up to the end-of-flags marker, given the two override pairs *)
FlagsWith(p, model_pair, profile_pair) ==
    <<<<"exec">>, <<"--sandbox">>, PolicyString(p.sandbox), <<"--cd">>, p.cd, <<"--json">>>>
    \o (IF Len(p.image) > 0 THEN <<<<"--image">>, join(p.image, <<",">>)>> ELSE <<>>)
    \o model_pair
    \o profile_pair
    \o (IF p.yolo THEN <<<<"--yolo">>>> ELSE <<>>)
    \o (IF p.skip_git_repo_check THEN <<<<"--skip-git-repo-check">>>> ELSE <<>>)
    \o (IF p.session_id.some /\ p.session_id.v # <<>>
        THEN <<<<"resume">>, p.session_id.v>> ELSE <<>>)
    \o <<<<"--">>>>

(* an override pair: absent, or the flag followed by the supplied string *)
OverridePairs(flag, override) ==
    {<<>>} \cup (IF override.some THEN {<<<<flag>>, override.v>>} ELSE {})

(* the statement as written: the final argument is the instruction itself *)
C16_Original ==
    pc = "built" =>
        \E m \in OverridePairs("--model", params.model),
           pr \in OverridePairs("--profile", params.profile) :
            argv = FlagsWith(params, m, pr) \o <<params.prompt>>

(* C16, as the code has it: the final argument is the instruction, and on *)
(* a Windows build the instruction as escaped by windows_escape; an       *)
(* override pair is present iff the override is supplied and not the      *)
(* empty string.  The vector is a function of the request and the build.  *)
C16_ArgumentVector ==
    pc = "built" =>
        argv = FlagsWith(params,
                         IF params.model.some /\ params.model.v # <<>>
                         THEN <<<<"--model">>, params.model.v>> ELSE <<>>,
                         IF params.profile.some /\ params.profile.v # <<>>
                         THEN <<<<"--profile">>, params.profile.v>> ELSE <<>>)
               \o <<IF windows THEN windows_escape(params.prompt) ELSE params.prompt>>

(* an empty session identity, two attachments and an instruction that     *)
(* reads like a flag                                                      *)
C16_Witness ==
    /\ pc = "built"
    /\ params.session_id = Some(<<>>)
    /\ Len(params.image) = 2
    /\ params.prompt = <<"--yolo">>
    /\ ~params.yolo
    /\ argv[Len(argv)] = <<"--yolo">>
    /\ argv[Len(argv) - 1] = <<"--">>

----------------------------------------------------------------------------
(* C17: --model (--profile) is among the flags of the argument vector if   *)
(* and only if the model (profile) override is supplied and its string is  *)
(* non-empty after trimming whitespace.                                    *)
HasFlag(flag) == \E i \in 1..(Len(argv) - 2) : argv[i] = <<flag>>

C17_TrimmedOverrides ==
    pc = "built" =>
        /\ HasFlag("--model") <=> (params.model.some /\ trim(params.model.v) # <<>>)
        /\ HasFlag("--profile") <=> (params.profile.some /\ trim(params.profile.v) # <<>>)

----------------------------------------------------------------------------
(* C18: in a Run Result produced by finalization, all_messages is present  *)
(* if and only if retention was requested, and it is then the sequence, in *)
(* emission order, of the decoded values of the lines consumed up to and   *)
(* including the stopping line: malformed and blank lines and the lines    *)
(* after the first turn.completed are not in it, reconnect notices and the *)
(* turn.completed event are.                                               *)
DecodedValue == [n \in LineNames |->
                    IF IsEvent(Line(n)) THEN <<Line(n).parsed.v>> ELSE <<>>]

RECURSIVE DecodedValues(_)
DecodedValues(s) ==
    IF s = <<>> THEN <<>> ELSE DecodedValue[Head(s)] \o DecodedValues(Tail(s))

C18_AllMessages ==
    Finalized =>
        /\ result.v.all_messages.some <=> return_all_messages
        /\ return_all_messages =>
              result.v.all_messages.v = DecodedValues(Consumed(stream))

(* retention was requested; a reconnect notice was consumed, the run      *)
(* stopped at a turn.completed event and a line after it was never read   *)
C18_Witness ==
    /\ Finalized
    /\ return_all_messages
    /\ StopIndex(stream) < Len(stream)
    /\ \E i \in 1..StopIndex(stream) : stream[i] \in ReconnectNotices
    /\ Len(result.v.all_messages.v) = StopIndex(stream)

----------------------------------------------------------------------------
(* C19: windows_escape, as applied to the prompt on a Windows build,       *)
(* rewrites the prompt character by character: a backslash becomes two     *)
(* backslashes, a double quote becomes backslash-quote, a newline becomes   *)
(* backslash-n (and carriage return, tab, backspace, form feed and         *)
(* apostrophe their backslash forms), every other character stays as it    *)
(* is; and for a prompt that contains a backslash or a double quote,       *)
(* escaping the escaped prompt again gives a string different from it.     *)
EscapedChar(c) ==
    CASE c = BACKSLASH -> <<BACKSLASH, BACKSLASH>>
      [] c = QUOTE -> <<BACKSLASH, QUOTE>>
      [] c = NEWLINE -> <<BACKSLASH, "n">>
      [] c = CARRIAGE_RETURN -> <<BACKSLASH, "r">>
      [] c = TAB -> <<BACKSLASH, "t">>
      [] c = BACKSPACE -> <<BACKSLASH, "b">>
      [] c = FORM_FEED -> <<BACKSLASH, "f">>
      [] c = APOSTROPHE -> <<BACKSLASH, APOSTROPHE>>
      [] OTHER -> <<c>>

RECURSIVE EscapedChars(_)
EscapedChars(s) ==
    IF s = <<>> THEN <<>> ELSE EscapedChar(Head(s)) \o EscapedChars(Tail(s))

C19_WindowsEscape ==
    (pc = "built" /\ windows) =>
        LET once == argv[Len(argv)]
        IN  /\ once = EscapedChars(params.prompt)
            /\ (\E i \in 1..Len(params.prompt) : params.prompt[i] \in {BACKSLASH, QUOTE})
                  => windows_escape(once) # once

(* a prompt made of a backslash and a double quote has been escaped *)
C19_Witness ==
    /\ pc = "built"
    /\ windows
    /\ params.prompt = <<BACKSLASH, QUOTE>>
    /\ argv[Len(argv)] = <<BACKSLASH, BACKSLASH, BACKSLASH, QUOTE>>

----------------------------------------------------------------------------
(* C20: an event whose type contains "fail" is handled by the fail branch  *)
(* only, also when its type contains "error" too: the step that takes it   *)
(* adds at most one annotation to the error text, and none that carries    *)
(* the event's top-level message.                                          *)
FailEvents == {n \in LineNames : TypeContains(Line(n), FAIL)}
TopLevelMessage == [n \in LineNames |-> MessageOf(Line(n))]

C20_FailPrecedence ==
    [][(TakesLine /\ NextLine \in FailEvents) =>
          /\ Len(err_message') <= Len(err_message) + 1
          /\ \A i \in (Len(err_message) + 1)..Len(err_message') :
                ~(/\ TopLevelMessage[NextLine].some
                  /\ err_message'[i].text = TopLevelMessage[NextLine].v)]_vars

----------------------------------------------------------------------------
(* C21, as written, in its first part: no annotation raised during a run  *)
(* is lost or overwritten, so whenever the call has returned after some    *)
(* annotation was raised, the error text of its Run Result is the          *)
(* accumulated error text.                                                 *)
C21_Original ==
    (pc = "done" /\ err_message # <<>>) => result.v.error = Some(err_message)

(* C21, for the runs that reach finalization: no annotation raised is lost *)
(* or overwritten, and the final error text has a fixed order: the         *)
(* missing-reply annotation (if the accumulated reply is empty), the       *)
(* missing-session-identity annotation (if no thread_id was observed), the *)
(* decode-failure and child-reported annotations of the consumed lines in  *)
(* emission order, then the annotation of the wait outcome, if it raised   *)
(* one.  A result with success=true had no annotation raised.              *)
NestedErrorMessage(l) ==
    IF IsEvent(l) /\ get(l.parsed.v, "error").some
    THEN get_str(get(l.parsed.v, "error").v, "message")
    ELSE None

(* the annotations a line raises: one for a decode failure; for an event,  *)
(* one for the nested error.message of a type containing "fail" and one    *)
(* for the top-level message of a type containing "error", unless that     *)
(* message is a reconnect notice                                           *)
RaisedByLine(l) ==
    IF IsMalformed(l)
    THEN <<Annotation(JSON_DECODE_ERROR, l.parsed.e \o <<": ">> \o trim(l.text))>>
    ELSE (IF TypeContains(l, FAIL) /\ NestedErrorMessage(l).some
          THEN <<Annotation(CODEX_ERROR, NestedErrorMessage(l).v)>> ELSE <<>>)
         \o (IF /\ TypeContains(l, ERROR)
                /\ MessageOf(l).some
                /\ ~starts_with(MessageOf(l).v, RECONNECTING)
             THEN <<Annotation(CODEX_ERROR, MessageOf(l).v)>> ELSE <<>>)

Raised == [n \in LineNames |-> RaisedByLine(Line(n))]

RECURSIVE RaisedBy(_)
RaisedBy(s) == IF s = <<>> THEN <<>> ELSE Raised[Head(s)] \o RaisedBy(Tail(s))

(* the annotation of the wait outcome: none after a zero exit *)
RaisedByWait ==
    IF wait_outcome = "exited" /\ status # Some(0)
    THEN <<Annotation(CODEX_EXIT, DebugStatus(status.v))>>
    ELSE IF wait_outcome = "error" THEN <<Annotation(CODEX_WAIT_ERROR, <<"os error">>)>>
    ELSE IF wait_outcome = "timeout"
    THEN <<Annotation(CODEX_WAIT_TIMEOUT, DebugWaitTimeout)>>
    ELSE <<>>

C21_AnnotationOrder ==
    Finalized =>
        LET consumed == Consumed(stream)
            expected ==
                (IF ConcatTexts(consumed) = <<>>
                 THEN <<Annotation(MISSING_AGENT_MESSAGES, <<>>)>> ELSE <<>>)
                \o (IF ~LastThreadId(consumed).some
                    THEN <<Annotation(MISSING_SESSION_ID, <<>>)>> ELSE <<>>)
                \o RaisedBy(consumed)
                \o RaisedByWait
        IN  /\ err_message = expected
            /\ result.v.success => expected = <<>>
            /\ ~result.v.success => result.v.error = Some(expected)

(* both validations failed, a decode failure and a child-reported error   *)
(* were logged, and the wait raised an annotation                         *)
C21_Witness ==
    /\ Finalized
    /\ Len(err_message) >= 5
    /\ err_message[1].pre = MISSING_AGENT_MESSAGES
    /\ err_message[2].pre = MISSING_SESSION_ID
    /\ \E i \in 3..(Len(err_message) - 1) : err_message[i].pre = JSON_DECODE_ERROR
    /\ \E i \in 3..(Len(err_message) - 1) : err_message[i].pre = CODEX_ERROR
    /\ err_message[Len(err_message)].pre \in
            {CODEX_EXIT, CODEX_WAIT_ERROR, CODEX_WAIT_TIMEOUT}

====
